---- MODULE Spec2Model ----
(***************************************************************************)
(* Model of yahoo_fantasy_api/yhandler.py: the YHandler class, which       *)
(* formats Yahoo Fantasy Sports resource paths and dispatches them as      *)
(* GET/PUT/POST requests on an injected session.                           *)
(*                                                                         *)
(* Python strings are TLA+ strings (TLC evaluates \o, Len and SubSeq on    *)
(* them).  An optional argument is a set: None is {} and a given value x   *)
(* is {x}.  Every method is an operator taking the handler (self), the     *)
(* method's arguments and the response the session returns to the one      *)
(* request the method issues; it yields the handler afterwards, the        *)
(* requests issued on the session and the call's outcome.                  *)
(***************************************************************************)
EXTENDS Integers, Sequences, FiniteSets, TLC

VARIABLES handler, lastCall, sent, result, anyFailed

vars == <<handler, lastCall, sent, result, anyFailed>>

(***************************************************************************)
(* Python values and built-ins used by the handler                         *)
(***************************************************************************)
None == {}

Some(x) == {x}

Get(opt) == CHOOSE x \in opt : TRUE

Digit(d) == SubSeq("0123456789", d + 1, d + 1)

RECURSIVE NatToStr(_)
NatToStr(n) == IF n < 10 THEN Digit(n) ELSE NatToStr(n \div 10) \o Digit(n % 10)

\* str(i) / "{}".format(i) for an int
IntToStr(n) == IF n < 0 THEN "-" \o NatToStr(0 - n) ELSE NatToStr(n)

\* %m and %d of strftime: two digits, zero padded
Pad2(n) == IF n < 10 THEN "0" \o NatToStr(n) ELSE NatToStr(n)

\* day.strftime("%Y-%m-%d"); every year drawn has four digits, where the
\* zero-padding of %Y (which differs between C libraries) plays no role
Strftime(day) == NatToStr(day.year) \o "-" \o Pad2(day.month) \o "-" \o Pad2(day.day)

\* s.find(sub): the lowest 0-based index where sub starts, or -1
Find(s, sub) ==
    LET hits == {i \in 0..(Len(s) - Len(sub)) : SubSeq(s, i + 1, i + Len(sub)) = sub}
    IN  IF hits = {} THEN -1 ELSE CHOOSE i \in hits : \A j \in hits : i <= j

\* s[start:stop], with Python's handling of negative and out-of-range indices
PySlice(s, start, stop) ==
    LET norm(i) == IF i < 0 THEN (IF Len(s) + i < 0 THEN 0 ELSE Len(s) + i)
                   ELSE IF i > Len(s) THEN Len(s) ELSE i
    IN  SubSeq(s, norm(start) + 1, norm(stop))

\* sep.join(parts)
RECURSIVE Join(_, _)
Join(sep, parts) ==
    IF parts = <<>> THEN ""
    ELSE IF Len(parts) = 1 THEN parts[1]
    ELSE parts[1] \o sep \o Join(sep, Tail(parts))

(***************************************************************************)
(* JSON documents, as response.json() yields them and json.dumps writes    *)
(* them                                                                    *)
(***************************************************************************)
JObject(members) == [kind |-> "object", members |-> members]

JArray(items) == [kind |-> "array", items |-> items]

JString(s) == [kind |-> "string", s |-> s]

JNumber(n) == [kind |-> "number", n |-> n]

JNull == [kind |-> "null"]

\* the body is not JSON: response.json() raises
NotJson == [kind |-> "invalid"]

Quote(s) == "\"" \o s \o "\""

\* json.dumps(jresp) with the default separators
JsonDumps(j) ==
    CASE j.kind = "object" ->
           "{" \o Join(", ", [i \in 1..Len(j.members) |->
                   Quote(j.members[i][1]) \o ": " \o Quote(j.members[i][2])]) \o "}"
      [] j.kind = "array" ->
           "[" \o Join(", ", [i \in 1..Len(j.items) |-> Quote(j.items[i])]) \o "]"
      [] j.kind = "string" -> Quote(j.s)
      [] j.kind = "number" -> IntToStr(j.n)
      [] j.kind = "null" -> "null"

\* item in jresp: key membership for a dict, element membership for a list,
\* substring test for a str, TypeError for None and numbers
PyContains(j, item) ==
    CASE j.kind = "object" ->
           IF \E i \in 1..Len(j.members) : j.members[i][1] = item THEN "True" ELSE "False"
      [] j.kind = "array" ->
           IF \E i \in 1..Len(j.items) : j.items[i] = item THEN "True" ELSE "False"
      [] j.kind = "string" -> IF Find(j.s, item) >= 0 THEN "True" ELSE "False"
      [] OTHER -> "TypeError"

(***************************************************************************)
(* Outcomes of a call and requests on the session                          *)
(***************************************************************************)
Return(v) == [kind |-> "return", value |-> v]

Raise(exc, arg) == [kind |-> "raise", exc |-> exc, arg |-> arg]

Outcome(s, reqs, res) == [self |-> s, sent |-> reqs, result |-> res]

Request(session, verb, url, params, headers, data) ==
    [session |-> session, verb |-> verb, url |-> url, params |-> params,
     headers |-> headers, data |-> data]

(***************************************************************************)
(* YHandler                                                                *)
(***************************************************************************)
YAHOO_ENDPOINT == "https://fantasysports.yahooapis.com/fantasy/v2"

\* "{}/{}".format(YAHOO_ENDPOINT, uri)
Url(uri) == YAHOO_ENDPOINT \o "/" \o uri

\* YHandler(sc)
YHandler(sc) == [sc |-> sc]

GetRequest(self, uri) ==
    Request(self.sc, "GET", Url(uri), {<<"format", "json">>}, {}, None)

XmlRequest(self, verb, uri, data) ==
    Request(self.sc, verb, Url(uri), {}, {<<"Content-Type", "application/xml">>}, Some(data))

\* a get that decides on the HTTP status instead of the body
get_by_status(self, uri, response) ==
    LET jresp == response.json
    IN  Outcome(self, <<GetRequest(self, uri)>>,
            IF jresp = NotJson THEN Raise("JSONDecodeError", response.content)
            ELSE IF response.status_code # 200 THEN Raise("RuntimeError", JsonDumps(jresp))
            ELSE Return(jresp))

\* a get that sends the request again after an error body
get_retry(self, uri, response) ==
    LET jresp == response.json
        req == GetRequest(self, uri)
    IN  IF jresp = NotJson
        THEN Outcome(self, <<req>>, Raise("JSONDecodeError", response.content))
        ELSE IF PyContains(jresp, "error") = "TypeError"
        THEN Outcome(self, <<req>>, Raise("TypeError", "argument is not iterable"))
        ELSE IF PyContains(jresp, "error") = "True"
        THEN Outcome(self, <<req, req>>, Raise("RuntimeError", JsonDumps(jresp)))
        ELSE Outcome(self, <<req>>, Return(jresp))

get(self, uri, response) ==
    LET jresp == response.json
    IN  Outcome(self, <<GetRequest(self, uri)>>,
            IF jresp = NotJson THEN Raise("JSONDecodeError", response.content)
            ELSE IF PyContains(jresp, "error") = "TypeError"
            THEN Raise("TypeError", "argument is not iterable")
            ELSE IF PyContains(jresp, "error") = "True"
            THEN Raise("RuntimeError", JsonDumps(jresp))
            ELSE Return(jresp))

\* a put that accepts every 2xx status
put_any_2xx(self, uri, data, response) ==
    Outcome(self, <<XmlRequest(self, "PUT", uri, data)>>,
        IF response.status_code < 200 \/ response.status_code > 299
        THEN Raise("RuntimeError", response.content)
        ELSE Return(response))

\* a put that forgets its session once a request has failed
put_drops_session(self, uri, data, response) ==
    IF response.status_code # 200
    THEN Outcome([self EXCEPT !.sc = "closed"], <<XmlRequest(self, "PUT", uri, data)>>,
                 Raise("RuntimeError", response.content))
    ELSE Outcome(self, <<XmlRequest(self, "PUT", uri, data)>>, Return(response))

put(self, uri, data, response) ==
    Outcome(self, <<XmlRequest(self, "PUT", uri, data)>>,
        IF response.status_code # 200
        THEN Raise("RuntimeError", response.content)
        ELSE Return(response))

\* a post that also accepts 200
post_accepts_200(self, uri, data, response) ==
    Outcome(self, <<XmlRequest(self, "POST", uri, data)>>,
        IF response.status_code # 201 /\ response.status_code # 200
        THEN Raise("RuntimeError", response.content)
        ELSE Return(response))

post(self, uri, data, response) ==
    Outcome(self, <<XmlRequest(self, "POST", uri, data)>>,
        IF response.status_code # 201
        THEN Raise("RuntimeError", response.content)
        ELSE Return(response))

get_teams_raw(self, response) ==
    get(self, "users;use_login=1/games/teams", response)

get_standings_raw(self, league_id, response) ==
    get(self, "league/" \o league_id \o "/standings", response)

get_settings_raw(self, league_id, response) ==
    get(self, "league/" \o league_id \o "/settings", response)

get_matchup_raw(self, team_key, week, response) ==
    get(self, "team/" \o team_key \o "/matchups;weeks=" \o IntToStr(week), response)

\* a roster request that tests the week for truth (if week:)
get_roster_raw_truthy(self, team_key, week, day, response) ==
    LET param == IF week # None /\ Get(week) # 0 THEN ";week=" \o IntToStr(Get(week))
                 ELSE IF day # None THEN ";date=" \o Strftime(Get(day))
                 ELSE ""
    IN  get(self, "team/" \o team_key \o "/roster" \o param, response)

\* a roster request that looks at the day before the week
get_roster_raw_day_first(self, team_key, week, day, response) ==
    LET param == IF day # None THEN ";date=" \o Strftime(Get(day))
                 ELSE IF week # None THEN ";week=" \o IntToStr(Get(week))
                 ELSE ""
    IN  get(self, "team/" \o team_key \o "/roster" \o param, response)

get_roster_raw(self, team_key, week, day, response) ==
    LET param == IF week # None THEN ";week=" \o IntToStr(Get(week))
                 ELSE IF day # None THEN ";date=" \o Strftime(Get(day))
                 ELSE ""
    IN  get(self, "team/" \o team_key \o "/roster" \o param, response)

\* a scoreboard request that tests the week for truth (if week:)
get_scoreboard_raw_truthy(self, league_id, week, response) ==
    LET week_uri == IF week # None /\ Get(week) # 0
                    THEN ";week=" \o IntToStr(Get(week)) ELSE ""
    IN  get(self, "league/" \o league_id \o "/scoreboard" \o week_uri, response)

get_scoreboard_raw(self, league_id, week, response) ==
    LET week_uri == IF week # None THEN ";week=" \o IntToStr(Get(week)) ELSE ""
    IN  get(self, "league/" \o league_id \o "/scoreboard" \o week_uri, response)

\* a players request that puts the position filter before the status filter
get_players_raw_pos_first(self, league_id, start, status, position, response) ==
    LET pos_parm == IF position = None THEN "" ELSE ";position=" \o Get(position)
    IN  get(self, "league/" \o league_id \o "/players;start=" \o IntToStr(start)
                  \o ";count=25" \o pos_parm \o ";status=" \o status
                  \o "/percent_owned", response)

get_players_raw(self, league_id, start, status, position, response) ==
    LET pos_parm == IF position = None THEN "" ELSE ";position=" \o Get(position)
    IN  get(self, "league/" \o league_id \o "/players;start=" \o IntToStr(start)
                  \o ";count=25;status=" \o status \o pos_parm
                  \o "/percent_owned", response)

get_player_raw(self, league_id, player_name, response) ==
    LET player_stat_uri == IF player_name # None
                           THEN "players;search=" \o Get(player_name) \o "/stats"
                           ELSE ""
    IN  get(self, "league/" \o league_id \o "/" \o player_stat_uri, response)

\* a percent-owned request that cuts the league id at its last "."
get_percent_owned_raw_last_dot(self, league_id, player_ids, response) ==
    LET dots == {i \in 0..(Len(league_id) - 1) : SubSeq(league_id, i + 1, i + 1) = "."}
        last == IF dots = {} THEN -1 ELSE CHOOSE i \in dots : \A j \in dots : j <= i
        lg_pref == PySlice(league_id, 0, last)
        joined_ids == Join(",", [i \in 1..Len(player_ids) |->
                                    lg_pref \o ".p." \o IntToStr(player_ids[i])])
    IN  get(self, "league/" \o league_id \o "/players;player_keys=" \o joined_ids
                  \o "/percent_owned", response)

get_percent_owned_raw(self, league_id, player_ids, response) ==
    LET lg_pref == PySlice(league_id, 0, Find(league_id, "."))
        joined_ids == Join(",", [i \in 1..Len(player_ids) |->
                                    lg_pref \o ".p." \o IntToStr(player_ids[i])])
    IN  get(self, "league/" \o league_id \o "/players;player_keys=" \o joined_ids
                  \o "/percent_owned", response)

put_roster(self, team_key, xml, response) ==
    put(self, "team/" \o team_key \o "/roster", xml, response)

post_transactions(self, league_id, xml, response) ==
    post(self, "league/" \o league_id \o "/transactions", xml, response)

(***************************************************************************)
(* Inputs: the arguments callers pass and the responses the session gives  *)
(***************************************************************************)
MaxPlayers == 2

Sessions == {"sc_a", "sc_b"}

Uris == {"game/mlb", "league/388.l.27/teams"}

Payloads == {"", "<fantasy_content><roster/></fantasy_content>"}

LeagueIds == {"388.l.27", "mlb.l.1", "1234"}

TeamKeys == {"T1", "388.l.27.t.5"}

Weeks == {0, 3, 12}

Days == {[year |-> 2024, month |-> 4, day |-> 7],
         [year |-> 2023, month |-> 10, day |-> 25]}

Starts == {0, 25}

Statuses == {"A", "FA"}

Positions == {"", "C"}

PlayerNames == {"Trout"}

PlayerIds == {7, 10042}

Opt(S) == {None} \cup {Some(x) : x \in S}

PlayerIdLists == UNION {[1..n -> PlayerIds] : n \in 0..MaxPlayers}

Response(status_code, content, json) ==
    [status_code |-> status_code, content |-> content, json |-> json]

Ok200 == Response(200, "{\"fantasy_content\": \"x\"}",
                  JObject(<< <<"fantasy_content", "x">> >>))

Created201 == Response(201, "{\"fantasy_content\": \"x\"}",
                       JObject(<< <<"fantasy_content", "x">> >>))

Error400 == Response(400, "{\"error\": \"bad request\"}",
                     JObject(<< <<"error", "bad request">> >>))

\* the responses drawn for the resource methods
ResourceResponses == {Ok200, Created201, Error400}

\* the responses drawn for get, put and post themselves
Responses ==
    ResourceResponses \cup
    { Response(200, "{\"fantasy_content\": \"x\", \"error\": \"token_expired\"}",
               JObject(<< <<"fantasy_content", "x">>, <<"error", "token_expired">> >>)),
      Response(404, "{\"errors\": \"none\"}", JObject(<< <<"errors", "none">> >>)),
      Response(200, "{}", JObject(<< >>)),
      Response(200, "[\"error\"]", JArray(<<"error">>)),
      Response(200, "[\"an error\"]", JArray(<<"an error">>)),
      Response(200, "\"an error\"", JString("an error")),
      Response(200, "\"fine\"", JString("fine")),
      Response(200, "null", JNull),
      Response(200, "7", JNumber(7)),
      Response(204, "", NotJson),
      Response(500, "<html>Server Error</html>", NotJson) }

(***************************************************************************)
(* State: the handler, the latest call with the requests it issued and its *)
(* outcome, and whether a call before the latest one failed                *)
(***************************************************************************)
NoResponse == Response(0, "", NotJson)

Call(method, args, response) == [method |-> method, args |-> args, response |-> response]

NoCall == Call("none", <<>>, NoResponse)

NoResult == [kind |-> "none"]

Init ==
    /\ handler \in {YHandler(sc) : sc \in Sessions}
    /\ lastCall = NoCall
    /\ sent = <<>>
    /\ result = NoResult
    /\ anyFailed = FALSE

\* a caller invokes a method; the session answers its request with response
Invoke(method, args, response, out) ==
    /\ handler' = out.self
    /\ lastCall' = Call(method, args, response)
    /\ sent' = out.sent
    /\ result' = out.result
    /\ anyFailed' = (anyFailed \/ result.kind = "raise")

DoGet ==
    \E uri \in Uris, response \in Responses :
        Invoke("get", <<uri>>, response, get(handler, uri, response))

DoPut ==
    \E uri \in Uris, data \in Payloads, response \in Responses :
        Invoke("put", <<uri, data>>, response, put(handler, uri, data, response))

DoPost ==
    \E uri \in Uris, data \in Payloads, response \in Responses :
        Invoke("post", <<uri, data>>, response, post(handler, uri, data, response))

GetTeamsRaw ==
    \E response \in ResourceResponses :
        Invoke("get_teams_raw", <<>>, response, get_teams_raw(handler, response))

GetStandingsRaw ==
    \E league_id \in LeagueIds, response \in ResourceResponses :
        Invoke("get_standings_raw", <<league_id>>, response,
               get_standings_raw(handler, league_id, response))

GetSettingsRaw ==
    \E league_id \in LeagueIds, response \in ResourceResponses :
        Invoke("get_settings_raw", <<league_id>>, response,
               get_settings_raw(handler, league_id, response))

GetMatchupRaw ==
    \E team_key \in TeamKeys, week \in Weeks, response \in ResourceResponses :
        Invoke("get_matchup_raw", <<team_key, week>>, response,
               get_matchup_raw(handler, team_key, week, response))

GetRosterRaw ==
    \E team_key \in TeamKeys, week \in Opt(Weeks), day \in Opt(Days),
       response \in ResourceResponses :
        Invoke("get_roster_raw", <<team_key, week, day>>, response,
               get_roster_raw(handler, team_key, week, day, response))

GetScoreboardRaw ==
    \E league_id \in LeagueIds, week \in Opt(Weeks), response \in ResourceResponses :
        Invoke("get_scoreboard_raw", <<league_id, week>>, response,
               get_scoreboard_raw(handler, league_id, week, response))

GetPlayersRaw ==
    \E league_id \in LeagueIds, start \in Starts, status \in Statuses,
       position \in Opt(Positions), response \in ResourceResponses :
        Invoke("get_players_raw", <<league_id, start, status, position>>, response,
               get_players_raw(handler, league_id, start, status, position, response))

GetPlayerRaw ==
    \E league_id \in LeagueIds, player_name \in Opt(PlayerNames),
       response \in ResourceResponses :
        Invoke("get_player_raw", <<league_id, player_name>>, response,
               get_player_raw(handler, league_id, player_name, response))

GetPercentOwnedRaw ==
    \E league_id \in LeagueIds, player_ids \in PlayerIdLists,
       response \in ResourceResponses :
        Invoke("get_percent_owned_raw", <<league_id, player_ids>>, response,
               get_percent_owned_raw(handler, league_id, player_ids, response))

PutRoster ==
    \E team_key \in TeamKeys, xml \in Payloads, response \in ResourceResponses :
        Invoke("put_roster", <<team_key, xml>>, response,
               put_roster(handler, team_key, xml, response))

PostTransactions ==
    \E league_id \in LeagueIds, xml \in Payloads, response \in ResourceResponses :
        Invoke("post_transactions", <<league_id, xml>>, response,
               post_transactions(handler, league_id, xml, response))

Next ==
    \/ DoGet
    \/ DoPut
    \/ DoPost
    \/ GetTeamsRaw
    \/ GetStandingsRaw
    \/ GetSettingsRaw
    \/ GetMatchupRaw
    \/ GetRosterRaw
    \/ GetScoreboardRaw
    \/ GetPlayersRaw
    \/ GetPlayerRaw
    \/ GetPercentOwnedRaw
    \/ PutRoster
    \/ PostTransactions

Spec == Init /\ [][Next]_vars

(***************************************************************************)
(* Vocabulary of the properties: what was called, what was requested, and  *)
(* the texts the path parameters are expected to take, written out by hand *)
(***************************************************************************)
Did(method) == lastCall.method = method

Arg(i) == lastCall.args[i]

ReadMethods == {"get", "get_teams_raw", "get_standings_raw", "get_settings_raw",
                "get_matchup_raw", "get_roster_raw", "get_scoreboard_raw",
                "get_players_raw", "get_player_raw", "get_percent_owned_raw"}

Failed == result.kind = "raise"

\* the path of the only request issued: its URL without the base endpoint
RequestedPath ==
    SubSeq(sent[1].url, Len(YAHOO_ENDPOINT) + 2, Len(sent[1].url))

Contains(s, sub) ==
    \E i \in 1..Len(s) : i + Len(sub) - 1 <= Len(s) /\ SubSeq(s, i, i + Len(sub) - 1) = sub

NumberText(n) ==
    CASE n = 0 -> "0" [] n = 3 -> "3" [] n = 7 -> "7" [] n = 12 -> "12"
      [] n = 25 -> "25" [] n = 10042 -> "10042"

DateText(d) ==
    CASE d = [year |-> 2024, month |-> 4, day |-> 7] -> "2024-04-07"
      [] d = [year |-> 2023, month |-> 10, day |-> 25] -> "2023-10-25"

HasKey(j, key) ==
    j.kind = "object" /\ \E i \in 1..Len(j.members) : j.members[i][1] = key

HasDot(s) == Contains(s, ".")

\* the part of s before its first ".", all of s when it has none
BeforeFirstDot(s) ==
    LET cuts == {n \in 0..Len(s) : /\ ~Contains(SubSeq(s, 1, n), ".")
                                  /\ (n = Len(s) \/ SubSeq(s, n + 1, n + 1) = ".")}
    IN  SubSeq(s, 1, CHOOSE n \in cuts : \A m \in cuts : n <= m)

RECURSIVE PlayerKeys(_, _)
PlayerKeys(prefix, ids) ==
    IF ids = <<>> THEN ""
    ELSE prefix \o ".p." \o NumberText(Head(ids))
         \o (IF Len(ids) > 1 THEN "," ELSE "") \o PlayerKeys(prefix, Tail(ids))

PercentOwnedPath(league_id, prefix, ids) ==
    "league/" \o league_id \o "/players;player_keys=" \o PlayerKeys(prefix, ids)
        \o "/percent_owned"

\* the latest call made once more on the handler as it is now
Replay ==
    LET r == lastCall.response
    IN  CASE Did("get") -> get(handler, Arg(1), r)
          [] Did("put") -> put(handler, Arg(1), Arg(2), r)
          [] Did("post") -> post(handler, Arg(1), Arg(2), r)
          [] Did("get_teams_raw") -> get_teams_raw(handler, r)
          [] Did("get_standings_raw") -> get_standings_raw(handler, Arg(1), r)
          [] Did("get_settings_raw") -> get_settings_raw(handler, Arg(1), r)
          [] Did("get_matchup_raw") -> get_matchup_raw(handler, Arg(1), Arg(2), r)
          [] Did("get_roster_raw") -> get_roster_raw(handler, Arg(1), Arg(2), Arg(3), r)
          [] Did("get_scoreboard_raw") -> get_scoreboard_raw(handler, Arg(1), Arg(2), r)
          [] Did("get_players_raw") ->
               get_players_raw(handler, Arg(1), Arg(2), Arg(3), Arg(4), r)
          [] Did("get_player_raw") -> get_player_raw(handler, Arg(1), Arg(2), r)
          [] Did("get_percent_owned_raw") ->
               get_percent_owned_raw(handler, Arg(1), Arg(2), r)
          [] Did("put_roster") -> put_roster(handler, Arg(1), Arg(2), r)
          [] Did("post_transactions") -> post_transactions(handler, Arg(1), Arg(2), r)

(***************************************************************************)
(* Properties                                                              *)
(***************************************************************************)

\* C1 (as stated): for every response whose body parses as JSON, a read fails
\* with RuntimeError carrying the serialized body if and only if the parsed
\* body has the key "error", whatever the status code; otherwise it returns
\* the parsed JSON unmodified.
C1_GetFailsIffErrorKeyAnyJson ==
    (lastCall.method \in ReadMethods /\ lastCall.response.json # NotJson) =>
        IF HasKey(lastCall.response.json, "error")
        THEN result = Raise("RuntimeError", lastCall.response.content)
        ELSE result = Return(lastCall.response.json)

\* C1 (amended): for every response whose body parses as a JSON object, a read
\* fails with RuntimeError carrying the serialized body if and only if the
\* object has the key "error", whatever the status code, and otherwise returns
\* the parsed object unmodified.  A body that parses as an array fails the
\* same way exactly when "error" is one of its elements, a string exactly
\* when it contains "error", and null or a number fails with TypeError.
C1_GetFailsIffErrorKeyInObject ==
    (lastCall.method \in ReadMethods /\ lastCall.response.json # NotJson) =>
        LET j == lastCall.response.json
            runtime == Raise("RuntimeError", lastCall.response.content)
        IN  CASE j.kind = "object" ->
                   IF HasKey(j, "error") THEN result = runtime ELSE result = Return(j)
              [] j.kind = "array" ->
                   IF \E i \in 1..Len(j.items) : j.items[i] = "error"
                   THEN result = runtime ELSE result = Return(j)
              [] j.kind = "string" ->
                   IF Contains(j.s, "error") THEN result = runtime ELSE result = Return(j)
              [] OTHER -> Failed /\ result.exc = "TypeError"

\* C1 witness: a get answered with status 200 and an object holding the key
\* "error" has failed.
C1_Witness ==
    /\ Did("get")
    /\ lastCall.response.status_code = 200
    /\ HasKey(lastCall.response.json, "error")
    /\ Failed /\ result.exc = "RuntimeError"

\* C2: put succeeds if and only if the status code is exactly 200, returning
\* the raw response object; for any other status it fails with RuntimeError
\* carrying the raw response body and returns nothing.
C2_PutSucceedsOnlyOn200 ==
    lastCall.method \in {"put", "put_roster"} =>
        IF lastCall.response.status_code = 200
        THEN result = Return(lastCall.response)
        ELSE result = Raise("RuntimeError", lastCall.response.content)

\* C2 witness: a put answered with status 201 and a body has failed.
C2_Witness ==
    /\ Did("put")
    /\ lastCall.response.status_code = 201
    /\ lastCall.response.content # ""
    /\ Failed

\* C3: post succeeds if and only if the status code is exactly 201, returning
\* the raw response object; for any other status, 200 included, it fails with
\* RuntimeError carrying the raw response body and returns nothing.
C3_PostSucceedsOnlyOn201 ==
    lastCall.method \in {"post", "post_transactions"} =>
        IF lastCall.response.status_code = 201
        THEN result = Return(lastCall.response)
        ELSE result = Raise("RuntimeError", lastCall.response.content)

\* C3 witness: a post answered with status 200 has failed.
C3_Witness ==
    /\ Did("post")
    /\ lastCall.response.status_code = 200
    /\ Failed

\* C4: get_roster_raw requests team/{key}/roster;week={w} when a week is
\* given, team/{key}/roster;date=YYYY-MM-DD when only a day is given, and
\* team/{key}/roster when neither is given.
C4_RosterPath ==
    Did("get_roster_raw") =>
        LET base == "team/" \o Arg(1) \o "/roster"
        IN  /\ Arg(2) # None => RequestedPath = base \o ";week=" \o NumberText(Get(Arg(2)))
            /\ (Arg(2) = None /\ Arg(3) # None) =>
                   RequestedPath = base \o ";date=" \o DateText(Get(Arg(3)))
            /\ (Arg(2) = None /\ Arg(3) = None) => RequestedPath = base

\* C4 witness: get_roster_raw("T1", week=3) has requested team/T1/roster;week=3.
C4_Witness ==
    /\ Did("get_roster_raw")
    /\ Arg(1) = "T1" /\ Arg(2) = Some(3) /\ Arg(3) = None
    /\ RequestedPath = "team/T1/roster;week=3"

\* C5 (as stated): for every league id and list of player ids,
\* get_percent_owned_raw takes the part of the league id before its first "."
\* as prefix and requests
\* league/{league_id}/players;player_keys={prefix}.p.{id},.../percent_owned.
C5_PercentOwnedPathAnyLeagueId ==
    Did("get_percent_owned_raw") =>
        RequestedPath = PercentOwnedPath(Arg(1), BeforeFirstDot(Arg(1)), Arg(2))

\* C5 (amended): for every league id that contains a "." the prefix is the
\* part of the league id before its first "."; for a league id without a "."
\* the prefix is the league id without its last character.  The keys
\* {prefix}.p.{id} are joined with commas in the order of the list and the
\* path is league/{league_id}/players;player_keys={joined}/percent_owned.
C5_PercentOwnedPathDottedLeagueId ==
    Did("get_percent_owned_raw") =>
        LET prefix == IF HasDot(Arg(1)) THEN BeforeFirstDot(Arg(1))
                      ELSE SubSeq(Arg(1), 1, Len(Arg(1)) - 1)
        IN  RequestedPath = PercentOwnedPath(Arg(1), prefix, Arg(2))

\* C5 witness: two player ids of league 388.l.27 have been requested.
C5_Witness ==
    /\ Did("get_percent_owned_raw")
    /\ Arg(1) = "388.l.27" /\ Arg(2) = <<10042, 7>>
    /\ RequestedPath = "league/388.l.27/players;player_keys=388.p.10042,388.p.7/percent_owned"

\* C6: get_players_raw requests
\* league/{id}/players;start={start};count=25;status={status}/percent_owned,
\* with ;position={p} right after the status segment exactly when a position
\* is given, and issues no follow-up request for the next page.
C6_PlayersPath ==
    Did("get_players_raw") =>
        /\ Len(sent) = 1
        /\ RequestedPath =
              "league/" \o Arg(1) \o "/players;start=" \o NumberText(Arg(2))
                 \o ";count=25;status=" \o Arg(3)
                 \o (IF Arg(4) = None THEN "" ELSE ";position=" \o Get(Arg(4)))
                 \o "/percent_owned"

\* C6 witness: the second page of free agents at position C has been requested.
C6_Witness ==
    /\ Did("get_players_raw")
    /\ Arg(2) = 25 /\ Arg(3) = "FA" /\ Arg(4) = Some("C")
    /\ Contains(RequestedPath, ";start=25;count=25;status=FA;position=C/")

\* C7: every public operation issues exactly one request on the injected
\* session, whether it succeeds or fails: a read issues a GET to
\* {base endpoint}/{path} with the query parameter format=json; put_roster a
\* PUT to team/{key}/roster and post_transactions a POST to
\* league/{id}/transactions, each with Content-Type: application/xml and the
\* caller's payload unmodified.
C7_ExactlyOneRequest ==
    ~Did("none") =>
        /\ Len(sent) = 1
        /\ sent[1].session = handler.sc
        /\ SubSeq(sent[1].url, 1, Len(YAHOO_ENDPOINT) + 1) = YAHOO_ENDPOINT \o "/"
        /\ lastCall.method \in ReadMethods =>
              /\ sent[1].verb = "GET"
              /\ sent[1].params = {<<"format", "json">>}
              /\ sent[1].data = None
        /\ Did("get") => RequestedPath = Arg(1)
        /\ lastCall.method \in {"put", "post", "put_roster", "post_transactions"} =>
              /\ sent[1].headers = {<<"Content-Type", "application/xml">>}
              /\ sent[1].data = Some(Arg(2))
              /\ sent[1].params = {}
        /\ lastCall.method \in {"put", "put_roster"} => sent[1].verb = "PUT"
        /\ lastCall.method \in {"post", "post_transactions"} => sent[1].verb = "POST"
        /\ lastCall.method \in {"put", "post"} => RequestedPath = Arg(1)
        /\ Did("put_roster") => RequestedPath = "team/" \o Arg(1) \o "/roster"
        /\ Did("post_transactions") =>
              RequestedPath = "league/" \o Arg(1) \o "/transactions"

\* C7 witness: a read that failed on an error body has issued one request.
C7_Witness ==
    /\ Did("get")
    /\ Failed /\ result.exc = "RuntimeError"
    /\ Len(sent) = 1

\* C8: get_scoreboard_raw requests league/{id}/scoreboard when week is unset
\* and league/{id}/scoreboard;week={w} for every week that is set, week 0
\* included; get_matchup_raw requests team/{key}/matchups;weeks={w}.
C8_ScoreboardAndMatchupPath ==
    /\ Did("get_scoreboard_raw") =>
          RequestedPath = "league/" \o Arg(1) \o "/scoreboard"
              \o (IF Arg(2) = None THEN "" ELSE ";week=" \o NumberText(Get(Arg(2))))
    /\ Did("get_matchup_raw") =>
          RequestedPath = "team/" \o Arg(1) \o "/matchups;weeks=" \o NumberText(Arg(2))

\* C8 witness: the scoreboard of week 0 has been requested.
C8_Witness ==
    /\ Did("get_scoreboard_raw")
    /\ Arg(1) = "388.l.27" /\ Arg(2) = Some(0)
    /\ RequestedPath = "league/388.l.27/scoreboard;week=0"

\* C9: no call, failed or not, changes the handler (its reference to the
\* injected session), and the requests and outcome of a call are those the
\* same call with the same response gives on the handler as any earlier call
\* left it.
C9_HandlerUnchanged ==
    [][/\ handler' = handler
       /\ Replay' = Outcome(handler', sent', result')]_vars

\* C9 witness: a call has succeeded after an earlier call failed.
C9_Witness ==
    /\ anyFailed
    /\ Did("put") /\ result = Return(lastCall.response)
    /\ handler.sc \in Sessions

\* C10: with both a week and a day, get_roster_raw requests
\* team/{key}/roster;week={w}; the day is ignored and the path never holds
\* both a ;week= and a ;date= segment.
C10_WeekTakesPrecedence ==
    Did("get_roster_raw") =>
        /\ ~(Contains(RequestedPath, ";week=") /\ Contains(RequestedPath, ";date="))
        /\ (Arg(2) # None /\ Arg(3) # None) =>
              /\ RequestedPath =
                    "team/" \o Arg(1) \o "/roster;week=" \o NumberText(Get(Arg(2)))
              /\ ~Contains(RequestedPath, ";date=")

\* C10 witness: a roster has been requested with both a week and a day.
C10_Witness ==
    /\ Did("get_roster_raw")
    /\ Arg(2) = Some(12) /\ Arg(3) # None
    /\ RequestedPath = "team/" \o Arg(1) \o "/roster;week=12"

====
